---- MODULE Spec2Model ----
(***************************************************************************)
(* Royal Shoe Shop: the catalog (products with per-size stock), the carts  *)
(* (POST /products/:id/cart, GET /products/cart/count), the admin product  *)
(* management (create, edit, delete), the checkout of section 4.4 of the   *)
(* design, the dashboard statistics, and the accounts (registration, admin *)
(* sign-in, session-guarded admin routes, login attempts and lock), as one *)
(* state machine.                                                          *)
(*                                                                         *)
(* The Cart and Product mongoose schemas (models/Cart, models/Product) and *)
(* routes/cart are not among the sources.  The handlers treat quantity,    *)
(* price and stock as numbers (they add and compare them), so a document   *)
(* field that would become NaN is rejected by save() (a cast error); no    *)
(* other validation is assumed, since the handlers perform none.  Values   *)
(* of size and color are stored as they are given.                         *)
(***************************************************************************)
EXTENDS Integers, Sequences, FiniteSets, TLC

VARIABLES
  products,       \* the Product collection: _id -> document
  nextProductId,  \* the next fresh _id (ObjectIds are never reused)
  carts,          \* the Cart collection: a sequence of documents [user, items]
  orders,         \* the Order collection, in creation order
  pc,             \* per user: where that user's checkout stands
  co,             \* per user: the checkout's locals (the cart it loaded, the line index)
  pre,            \* per user, history: products, carts and orders when the checkout began
  resp,           \* the response of the request that completed last
  users,          \* the User collection, in creation order
  session,        \* per browser session: session.user, or none
  now,            \* the clock (Date.now()), in ticks
  calls           \* per caller: the locals of its request in flight (the documents it loaded)

vars == <<products, nextProductId, carts, orders, pc, co, pre, resp,
          users, session, now, calls>>

(***************************************************************************)
(* Bounds of the model and the input domains.                              *)
(***************************************************************************)
MaxQty == 2
MaxLines == 2
MaxOrders == 1

Users == {"u1", "u2"}
NoUser == "anonymous"

\* The callers whose requests run side by side, and a caller at rest.
Callers == {"r1", "r2"}
NoCall == [op |-> "none"]

(***************************************************************************)
(* Request fields as they arrive: absent, a number (or numeric string), or *)
(* a text that is no number.                                               *)
(***************************************************************************)
Absent == [kind |-> "absent", v |-> 0]
Text == [kind |-> "text", v |-> 0]
Num(n) == [kind |-> "num", v |-> n]

\* parseInt: the integer of a numeric field; NaN for an absent or non-numeric one.
ParseInt(raw) == [nan |-> raw.kind # "num", v |-> IF raw.kind = "num" THEN raw.v ELSE 0]

\* const { quantity = 1 } = req.body: the default applies to an absent field only.
QuantityOrDefault(raw) == IF raw.kind = "absent" THEN Num(1) ELSE raw

(***************************************************************************)
(* Sequences.                                                              *)
(***************************************************************************)
RECURSIVE SumQuantity(_)
\* items.reduce((sum, item) => sum + item.quantity, 0)
SumQuantity(items) ==
  IF items = <<>> THEN 0 ELSE items[1].quantity + SumQuantity(Tail(items))

\* Array.prototype.findIndex, 1-based: the first of the positions that satisfy
\* the test, 0 when there is none.
FindIndex(matches) ==
  IF matches = {} THEN 0 ELSE CHOOSE i \in matches : \A j \in matches : i <= j

(***************************************************************************)
(* Catalog.                                                                *)
(***************************************************************************)
\* The _ids the model hands out, in order.
ProductIds == {1}

\* Product.findById
ProductExists(id) == id \in DOMAIN products

\* The position of the first size entry with that size in a catalog, 0 when the
\* product or the size is missing.
SizeEntry(catalog, id, size) ==
  IF id \notin DOMAIN catalog THEN 0
  ELSE FindIndex({k \in 1..Len(catalog[id].sizes) : catalog[id].sizes[k].size = size})

\* availableStock(id, size) in a catalog: 0 without the product or the size.
StockIn(catalog, id, size) ==
  IF SizeEntry(catalog, id, size) = 0 THEN 0
  ELSE catalog[id].sizes[SizeEntry(catalog, id, size)].quantity

AvailableStock(id, size) == StockIn(products, id, size)

\* Faulty variant: the decrement applied without the test of the resulting quantity.
CanDecrementUnchecked(id, size, amount) == SizeEntry(products, id, size) # 0
\* decrementStock succeeds only if the resulting quantity is >= 0.
CanDecrement(id, size, amount) ==
  /\ SizeEntry(products, id, size) # 0
  /\ AvailableStock(id, size) - amount >= 0

\* Faulty variant: the decrement applied to every size entry of the product.
DecrementEverySize(id, size, amount) ==
  [products EXCEPT ![id].sizes =
     [k \in 1..Len(products[id].sizes) |->
        [products[id].sizes[k] EXCEPT !.quantity = @ - amount]]]
\* The catalog after decrementStock(id, size, amount) has succeeded.
DecrementStock(id, size, amount) ==
  [products EXCEPT ![id].sizes[SizeEntry(products, id, size)].quantity = @ - amount]

(***************************************************************************)
(* Carts.                                                                  *)
(***************************************************************************)
\* Cart.findOne({ user }): the position of the user's first cart document, 0 if none.
FindCart(u) == FindIndex({i \in 1..Len(carts) : carts[i].user = u})

\* The cart the handler works on: the stored one, or new Cart({ user, items: [] }).
FindOrCreateCart(u) ==
  IF FindCart(u) = 0 THEN [user |-> u, items |-> <<>>] ELSE carts[FindCart(u)]

\* Faulty variant: the color left out of the key.
SameKeyIgnoringColor(item, id, size, color) == item.product = id /\ item.size = size
\* Same product, same size and same color.
SameKey(item, id, size, color) ==
  item.product = id /\ item.size = size /\ item.color = color

\* cart.items.findIndex(...)
ExistingItemIndex(items, id, size, color) ==
  FindIndex({k \in 1..Len(items) : SameKey(items[k], id, size, color)})

\* Faulty variant: the base price stored as the discounted price of the line.
NewItemPriceAsDiscount(id, size, color, q) ==
  [product |-> id, name |-> products[id].name, price |-> products[id].price,
   discountedPrice |-> [present |-> TRUE, v |-> products[id].price],
   quantity |-> q, size |-> size, color |-> color]
\* The new line: the key, the parsed quantity and the snapshot of the product.
NewItem(id, size, color, q) ==
  [product |-> id, name |-> products[id].name, price |-> products[id].price,
   discountedPrice |-> products[id].discountPrice,
   quantity |-> q, size |-> size, color |-> color]

\* Faulty variant: the matching line also takes the product's present prices.
ItemsAfterAddRefreshing(items, id, size, color, q) ==
  IF \E k \in 1..Len(items) : SameKey(items[k], id, size, color)
  THEN [k \in 1..Len(items) |->
          IF SameKey(items[k], id, size, color)
          THEN [items[k] EXCEPT !.quantity = @ + q, !.price = products[id].price,
                                !.discountedPrice = products[id].discountPrice]
          ELSE items[k]]
  ELSE Append(items, [product |-> id, name |-> products[id].name,
                      price |-> products[id].price,
                      discountedPrice |-> products[id].discountPrice,
                      quantity |-> q, size |-> size, color |-> color])
\* quantity += parseInt(quantity) on the matching line, or items.push(new line).
ItemsAfterAdd(items, id, size, color, q) ==
  LET k == ExistingItemIndex(items, id, size, color)
  IN IF k > 0 THEN [items EXCEPT ![k].quantity = @ + q]
     ELSE Append(items, NewItem(id, size, color, q))

\* Faulty variant: every save inserts a new document.
SaveCartAlwaysInsert(u, items) == Append(carts, [user |-> u, items |-> items])
\* cart.save(): an insert for a new document, an update in place for a stored one.
SaveCart(u, items) ==
  IF FindCart(u) = 0 THEN Append(carts, [user |-> u, items |-> items])
  ELSE [carts EXCEPT ![FindCart(u)].items = items]

\* Faulty variant: the count taken from the cart as stored before the save.
CartCountStale(u, items) == SumQuantity(FindOrCreateCart(u).items)
\* The cartCount of the add response, computed from the cart just saved.
CartCountOfResponse(u, items) == SumQuantity(items)

\* What a request answers: the HTTP status (0 outside HTTP), success, the error kind,
\* the user it was for and the cart count it carries.
Response(op, status, error, u, count) ==
  [op |-> op, status |-> status, success |-> error = "", error |-> error,
   user |-> u, count |-> count]

NoResponse == Response("none", 0, "", NoUser, 0)

(***************************************************************************)
(* Admin product management: the size entries of a create or edit request. *)
(***************************************************************************)
MinSizeField == 6
MaxSizeField == 12
DefaultSize == 9
DefaultQuantity == 10

NoDiscount == [present |-> FALSE, v |-> 0]
Discount(n) == [present |-> TRUE, v |-> n]

\* req.body[`size_${size}_quantity`]
QuantityField(fields, size) == IF size \in DOMAIN fields THEN fields[size] ELSE Absent

\* req.body.sizes: absent, one value, or an array of values.
NoSelection == [kind |-> "absent", value |-> Absent, items |-> <<>>]
Single(raw) == [kind |-> "single", value |-> raw, items |-> <<>>]
Array(seq) == [kind |-> "array", value |-> Absent, items |-> seq]

\* if (!Array.isArray(sizesArray)) sizesArray = [sizesArray]
AsArray(sel) == IF sel.kind = "array" THEN sel.items ELSE <<sel.value>>

RECURSIVE CheckedSizes(_, _)
\* The forEach over the checked sizes: parseInt(field) || 0, kept when > 0.
CheckedSizes(arr, fields) ==
  IF arr = <<>> THEN <<>>
  ELSE LET size == ParseInt(arr[1])
           parsed == ParseInt(QuantityField(fields, size.v))
           quantity == IF size.nan \/ parsed.nan THEN 0 ELSE parsed.v
       IN (IF quantity > 0 THEN <<[size |-> size.v, quantity |-> quantity]>> ELSE <<>>)
          \o CheckedSizes(Tail(arr), fields)

RECURSIVE FieldSizes(_, _)
\* for (size = 6; size <= 12; size++): the fields with a positive quantity.
FieldSizes(size, fields) ==
  IF size > MaxSizeField THEN <<>>
  ELSE LET parsed == ParseInt(QuantityField(fields, size))
       IN (IF ~parsed.nan /\ parsed.v > 0
           THEN <<[size |-> size, quantity |-> parsed.v]>> ELSE <<>>)
          \o FieldSizes(size + 1, fields)

\* Faulty variant: no default entry when no size is left.
ProcessSizesWithoutDefault(sel, fields) ==
  LET checked == IF sel.kind = "absent" THEN <<>> ELSE CheckedSizes(AsArray(sel), fields)
  IN IF checked = <<>> THEN FieldSizes(MinSizeField, fields) ELSE checked
\* 3. PROCESS SIZES of POST /admin/products/create.
ProcessSizes(sel, fields) ==
  LET checked == IF sel.kind = "absent" THEN <<>> ELSE CheckedSizes(AsArray(sel), fields)
      fromFields == IF checked = <<>> THEN FieldSizes(MinSizeField, fields) ELSE checked
  IN IF fromFields = <<>>
     THEN <<[size |-> DefaultSize, quantity |-> DefaultQuantity]>>
     ELSE fromFields

\* discountPrice ? parseFloat(discountPrice) : undefined
ParseDiscount(raw) ==
  IF raw.kind = "absent" THEN [nan |-> FALSE, d |-> NoDiscount]
  ELSE [nan |-> ParseInt(raw).nan, d |-> Discount(ParseInt(raw).v)]

(***************************************************************************)
(* The colors of a create request and the uploaded images.                 *)
(***************************************************************************)
DefaultColor == "Default"
DefaultCode == "#000000"

\* req.body[`color_${colorName}_code`] || '#000000'
ColorCode(codes, name) == IF name \in DOMAIN codes THEN codes[name] ELSE DefaultCode

\* 4. PROCESS COLORS: the non-blank color names, each with its code and no image yet.
ProcessColors(sel, codes) ==
  LET given == IF sel.kind = "absent" THEN <<>> ELSE AsArray(sel)
      named == SelectSeq(given, LAMBDA color : color \notin {"", " "})
  IN [i \in 1..Len(named) |->
        [name |-> named[i], code |-> ColorCode(codes, named[i]), images |-> <<>>]]

\* 5. PROCESS IMAGES: req.files.map(file => ({ url, public_id, secure_url }))
CloudinaryImages(files) ==
  [i \in 1..Len(files) |->
     [url |-> files[i].path, public_id |-> files[i].filename, secure_url |-> files[i].path]]

\* Math.ceil(a / b) for a >= 0 and b > 0
Ceil(a, b) == (a + b - 1) \div b
Min(a, b) == IF a < b THEN a ELSE b
\* array.slice(startIdx, endIdx) for 0 <= startIdx and endIdx <= array.length
Slice(array, startIdx, endIdx) == [k \in 1..(endIdx - startIdx) |-> array[startIdx + k]]

\* Faulty variant: the share of a color rounded down.
AssignImagesRoundingDown(colors, images) ==
  IF Len(colors) = 0
  THEN <<[name |-> DefaultColor, code |-> DefaultCode, images |-> images]>>
  ELSE LET imagesPerColor == Len(images) \div Len(colors)
       IN [index \in 1..Len(colors) |->
             LET startIdx == (index - 1) * imagesPerColor
                 endIdx == Min(startIdx + imagesPerColor, Len(images))
             IN [colors[index] EXCEPT !.images = Slice(images, startIdx, endIdx)]]
\* 6. ASSIGN IMAGES TO COLORS
AssignImages(colors, images) ==
  IF Len(colors) = 0
  THEN <<[name |-> DefaultColor, code |-> DefaultCode, images |-> images]>>
  ELSE LET imagesPerColor == Ceil(Len(images), Len(colors))
       IN [index \in 1..Len(colors) |->
             LET startIdx == (index - 1) * imagesPerColor
                 endIdx == Min(startIdx + imagesPerColor, Len(images))
             IN [colors[index] EXCEPT !.images = Slice(images, startIdx, endIdx)]]

\* POST /admin/products/create, the request of a signed-in admin.
AdminCreate(body) ==
  /\ nextProductId \in ProductIds
  /\ LET price == ParseInt(body.price)
         discount == ParseDiscount(body.discountPrice)
         invalid == body.name = "" \/ price.nan \/ price.v <= 0 \/ ~body.restValid
                    \/ Len(body.files) = 0
         doc == [name |-> body.name, price |-> price.v, discountPrice |-> discount.d,
                 sizes |-> ProcessSizes(body.sizes, body.fields),
                 colors |-> AssignImages(ProcessColors(body.colors, body.codes),
                                         CloudinaryImages(body.files))]
     IN IF invalid \/ discount.nan
        THEN /\ resp' = Response("create", 302, "rejected", NoUser, 0)
             /\ UNCHANGED <<products, nextProductId>>
        ELSE /\ products' = (nextProductId :> doc) @@ products
             /\ nextProductId' = nextProductId + 1
             /\ resp' = Response("create", 302, "", NoUser, 0)
  /\ UNCHANGED <<carts, orders, pc, co, pre, users, session, now, calls>>

RECURSIVE EditedSizes(_, _)
\* req.body.sizes.map(size => ({ size: parseInt(size), quantity: parseInt(field || 0) }))
EditedSizes(arr, fields) ==
  IF arr = <<>> THEN <<>>
  ELSE LET size == ParseInt(arr[1])
           field == QuantityField(fields, size.v)
           quantity == IF field.kind = "absent" THEN ParseInt(Num(0)) ELSE ParseInt(field)
       IN <<[size |-> size.v, quantity |-> quantity.v, nan |-> size.nan \/ quantity.nan]>>
          \o EditedSizes(Tail(arr), fields)

\* Update colors: an array of names replaces the colors; their images are not kept.
EditedColors(colors, sel, codes) ==
  IF sel.kind = "array"
  THEN [i \in 1..Len(sel.items) |->
          [name |-> sel.items[i], code |-> ColorCode(codes, sel.items[i]), images |-> <<>>]]
  ELSE colors

\* Handle new images: they go to the first color, or to a new default color.
WithNewImages(colors, files) ==
  LET newImages == [i \in 1..Len(files) |-> files[i].filename]
  IN IF Len(files) = 0 THEN colors
     ELSE IF Len(colors) = 0
     THEN <<[name |-> DefaultColor, code |-> DefaultCode, images |-> newImages]>>
     ELSE [colors EXCEPT ![1].images = @ \o newImages]

\* POST /edit/:id
AdminEdit(id, body) ==
  /\ LET price == ParseInt(body.price)
         discount == ParseDiscount(body.discountPrice)
         edited == EditedSizes(body.sizes.items, body.fields)
         castError == price.nan \/ discount.nan
                      \/ (body.sizes.kind = "array" /\ \E i \in 1..Len(edited) : edited[i].nan)
     IN IF ~ProductExists(id) \/ castError
        THEN /\ resp' = Response("edit", 302, "rejected", NoUser, 0)
             /\ UNCHANGED products
        ELSE /\ products' = [products EXCEPT ![id] =
                  [name |-> body.name, price |-> price.v, discountPrice |-> discount.d,
                   sizes |-> IF body.sizes.kind = "array"
                             THEN [i \in 1..Len(edited) |->
                                     [size |-> edited[i].size, quantity |-> edited[i].quantity]]
                             ELSE @.sizes,
                   colors |-> WithNewImages(EditedColors(@.colors, body.colors, body.codes),
                                            body.files)]]
             /\ resp' = Response("edit", 302, "", NoUser, 0)
  /\ UNCHANGED <<nextProductId, carts, orders, pc, co, pre, users, session, now, calls>>

\* Faulty variant: the deletion also drops the orders that hold a line of the product.
AdminDeleteCascading(id) ==
  /\ products' = [p \in DOMAIN products \ {id} |-> products[p]]
  /\ orders' = SelectSeq(orders, LAMBDA o : \A k \in 1..Len(o.items) : o.items[k].product # id)
  /\ resp' = Response("delete", 302, "", NoUser, 0)
  /\ UNCHANGED <<nextProductId, carts, pc, co, pre, users, session, now, calls>>
\* POST /delete/:id
AdminDelete(id) ==
  /\ products' = [p \in DOMAIN products \ {id} |-> products[p]]
  /\ resp' = Response("delete", 302, "", NoUser, 0)
  /\ UNCHANGED <<nextProductId, carts, orders, pc, co, pre, users, session, now, calls>>

(***************************************************************************)
(* The cart routes.                                                        *)
(***************************************************************************)
\* The bounds of the model on a cart: its number of lines and each quantity.
WithinBounds(items) ==
  /\ Len(items) <= MaxLines
  /\ \A i \in 1..Len(items) : items[i].quantity \in (0 - MaxQty)..MaxQty

\* Faulty variant: the missing product answered as a success.
NotFoundAnsweredOk(u) == Response("addItem", 200, "", u, 0)
\* res.status(404).json({ success: false, message: 'Product not found' })
NotFound(u) == Response("addItem", 404, "ProductNotFound", u, 0)

\* Faulty variant: an add that reserves one unit of stock and refuses without it.
AddItemReserving(u, id, body) ==
  /\ u # NoUser /\ CanDecrement(id, body.size, 1)
  /\ products' = DecrementStock(id, body.size, 1)
  /\ carts' = SaveCart(u, ItemsAfterAdd(FindOrCreateCart(u).items, id, body.size, body.color, 1))
  /\ resp' = Response("addItem", 200, "", u, 0)
  /\ UNCHANGED <<nextProductId, orders, pc, co, pre, users, session, now, calls>>
\* POST /products/:id/cart
AddItem(u, id, body) ==
  /\ IF u = NoUser
     THEN /\ resp' = Response("addItem", 302, "Unauthenticated", u, 0)
          /\ UNCHANGED carts
     ELSE IF ~ProductExists(id)
     THEN /\ resp' = NotFound(u)
          /\ UNCHANGED carts
     ELSE LET q == ParseInt(QuantityOrDefault(body.quantity))
              items == ItemsAfterAdd(FindOrCreateCart(u).items, id, body.size, body.color, q.v)
          IN IF q.nan
             THEN /\ resp' = Response("addItem", 500, "Error", u, 0)
                  /\ UNCHANGED carts
             ELSE /\ WithinBounds(items)
                  /\ carts' = SaveCart(u, items)
                  /\ resp' = Response("addItem", 200, "", u, CartCountOfResponse(u, items))
  /\ UNCHANGED <<products, nextProductId, orders, pc, co, pre, users, session, now, calls>>

\* POST /products/:id/cart up to its save: Product.findById, Cart.findOne and the
\* change of the loaded cart (or of a new one); the caller then holds that cart and
\* knows whether it is new and which line it changed (0: it pushed a line).
AddItemFind(r, u, id, body) ==
  /\ calls[r] = NoCall
  /\ IF ~ProductExists(id)
     THEN /\ resp' = NotFound(u)
          /\ UNCHANGED calls
     ELSE LET q == ParseInt(QuantityOrDefault(body.quantity))
              cart == FindOrCreateCart(u)
          IN /\ calls' = [calls EXCEPT ![r] =
                  [op |-> "addItem", user |-> u, id |-> FindCart(u), nan |-> q.nan,
                   loaded |-> Len(cart.items),
                   line |-> ExistingItemIndex(cart.items, id, body.size, body.color),
                   items |-> ItemsAfterAdd(cart.items, id, body.size, body.color, q.v)]]
             /\ UNCHANGED resp
  /\ UNCHANGED <<products, nextProductId, carts, orders, pc, co, pre, users, session, now>>

\* cart.save() of a cart loaded earlier, and the answer.  A new cart is inserted;
\* whether the Cart schema (not among the sources) keeps a second cart of the user
\* out by a unique index is open: uniqueUser.  A stored cart gets the changes only:
\* a pushed line is appended to the stored lines ($push), a changed quantity is set
\* at its position, which fails when lines were pushed since the load (the version
\* of the document has changed).
AddItemSave(r, uniqueUser) ==
  /\ calls[r].op = "addItem"
  /\ LET call == calls[r]
         u == call.user
         failed == Response("addItem", 500, "Error", u, 0)
         answer == Response("addItem", 200, "", u, SumQuantity(call.items))
     IN IF call.nan
        THEN resp' = failed /\ UNCHANGED carts
        ELSE IF call.id = 0
        THEN IF uniqueUser /\ FindCart(u) # 0
             THEN resp' = failed /\ UNCHANGED carts
             ELSE /\ carts' = Append(carts, [user |-> u, items |-> call.items])
                  /\ resp' = answer
        ELSE IF call.line = 0
        THEN /\ WithinBounds(Append(carts[call.id].items, call.items[Len(call.items)]))
             /\ carts' = [carts EXCEPT ![call.id].items =
                                          Append(@, call.items[Len(call.items)])]
             /\ resp' = answer
        ELSE IF Len(carts[call.id].items) # call.loaded
        THEN resp' = failed /\ UNCHANGED carts
        ELSE /\ WithinBounds(call.items)
             /\ carts' = [carts EXCEPT ![call.id].items[call.line].quantity =
                                          call.items[call.line].quantity]
             /\ resp' = answer
  /\ calls' = [calls EXCEPT ![r] = NoCall]
  /\ UNCHANGED <<products, nextProductId, orders, pc, co, pre, users, session, now>>

\* GET /products/cart/count
CountOf(u, lookupFails) ==
  IF u = NoUser \/ lookupFails \/ FindCart(u) = 0 THEN 0
  ELSE SumQuantity(carts[FindCart(u)].items)

CartCount(u, lookupFails) ==
  /\ resp' = Response("count", 200, "", u, CountOf(u, lookupFails))
  /\ UNCHANGED <<products, nextProductId, carts, orders, pc, co, pre, users, session, now, calls>>

(***************************************************************************)
(* removeItem (4.3).  routes/cart is not among the sources: the operation  *)
(* follows the design: the matching line is deleted if present, and the    *)
(* call is a no-op, not an error, if it is absent.                         *)
(***************************************************************************)
\* Faulty variant: every line of the product and size goes, whatever its color.
WithoutLineAnyColor(items, id, size, color) ==
  SelectSeq(items, LAMBDA item : ~(item.product = id /\ item.size = size))
\* The lines of a cart without the line of a key.
WithoutLine(items, id, size, color) ==
  SelectSeq(items, LAMBDA item : ~SameKey(item, id, size, color))

RemoveItem(u, id, size, color) ==
  /\ carts' = IF FindCart(u) = 0 THEN carts
              ELSE [carts EXCEPT ![FindCart(u)].items = WithoutLine(@, id, size, color)]
  /\ resp' = Response("removeItem", 0, "", u, 0)
  /\ UNCHANGED <<products, nextProductId, orders, pc, co, pre, users, session, now, calls>>

(***************************************************************************)
(* Pricing (4.2) and checkout (4.4).  routes/cart is not among the         *)
(* sources: these follow the design's steps 1 to 4 as written, with the    *)
(* stock decrement of 4.1 applied as one conditional update per line.      *)
(***************************************************************************)
\* The discount price if present and non-negative, else the base price.
EffectivePrice(item) ==
  IF item.discountedPrice.present /\ item.discountedPrice.v >= 0
  THEN item.discountedPrice.v ELSE item.price

RECURSIVE CartTotal(_)
\* The sum of the line subtotals: effective unit price times quantity.
CartTotal(items) ==
  IF items = <<>> THEN 0
  ELSE EffectivePrice(items[1]) * items[1].quantity + CartTotal(Tail(items))

Idle == "idle"
NoCheckout == [items |-> <<>>, i |-> 0]
NoSnapshot == [products |-> <<>>, carts |-> <<>>, orders |-> 0]

\* Faulty variant: step 2 left out.
LinePassesAlways(line) == TRUE
\* Step 2's test of one line against the current stock.
LinePasses(line) == AvailableStock(line.product, line.size) >= line.quantity

\* The checkout of user u ends, with an error kind or with "" (an Order).
CheckoutEnds(u, error) ==
  /\ pc' = [pc EXCEPT ![u] = Idle]
  /\ co' = [co EXCEPT ![u] = NoCheckout]
  /\ pre' = [pre EXCEPT ![u] = NoSnapshot]
  /\ resp' = Response("checkout", 0, error, u, 0)

\* Step 1: load the user's cart; EmptyCart if it has no lines.
CheckoutLoad(u) ==
  /\ pc[u] = Idle
  /\ Len(orders) < MaxOrders
  /\ IF FindCart(u) = 0 \/ FindOrCreateCart(u).items = <<>>
     THEN /\ resp' = Response("checkout", 0, "EmptyCart", u, 0)
          /\ UNCHANGED <<pc, co, pre>>
     ELSE /\ pc' = [pc EXCEPT ![u] = "verify"]
          /\ co' = [co EXCEPT ![u] = [items |-> carts[FindCart(u)].items, i |-> 1]]
          /\ pre' = [pre EXCEPT ![u] =
                       [products |-> products, carts |-> carts, orders |-> Len(orders)]]
          /\ resp' = NoResponse
  /\ UNCHANGED <<products, nextProductId, carts, orders, users, session, now, calls>>

\* Step 2: the lines in cart order, each against the current stock.
CheckoutVerify(u) ==
  /\ pc[u] = "verify"
  /\ IF ~LinePasses(co[u].items[co[u].i])
     THEN CheckoutEnds(u, "InsufficientStock")
     ELSE /\ pc' = [pc EXCEPT ![u] = IF co[u].i = Len(co[u].items) THEN "decrement" ELSE @]
          /\ co' = [co EXCEPT ![u].i = IF @ = Len(co[u].items) THEN 1 ELSE @ + 1]
          /\ resp' = NoResponse
          /\ UNCHANGED pre
  /\ UNCHANGED <<products, nextProductId, carts, orders, users, session, now, calls>>

\* Step 3: decrement the stock of every line, in cart order.
CheckoutDecrement(u) ==
  /\ pc[u] = "decrement"
  /\ LET line == co[u].items[co[u].i]
     IN IF ~CanDecrement(line.product, line.size, line.quantity)
        THEN /\ CheckoutEnds(u, "InsufficientStock")
             /\ UNCHANGED products
        ELSE /\ products' = DecrementStock(line.product, line.size, line.quantity)
             /\ pc' = [pc EXCEPT ![u] = IF co[u].i = Len(co[u].items) THEN "order" ELSE @]
             /\ co' = [co EXCEPT ![u].i = IF @ = Len(co[u].items) THEN 1 ELSE @ + 1]
             /\ resp' = NoResponse
             /\ UNCHANGED pre
  /\ UNCHANGED <<nextProductId, carts, orders, users, session, now, calls>>

\* The Order: a copy of each line and the cart's total.
OrderOf(u, items) ==
  [user |-> u, items |-> items, totalAmount |-> CartTotal(items), status |-> "pending"]

\* Steps 3 and 4: construct and persist the Order.
CheckoutOrder(u) ==
  /\ pc[u] = "order"
  /\ orders' = Append(orders, OrderOf(u, co[u].items))
  /\ pc' = [pc EXCEPT ![u] = "clear"]
  /\ resp' = NoResponse
  /\ UNCHANGED <<products, nextProductId, carts, co, pre, users, session, now, calls>>

\* Step 4: clear the user's cart.
CheckoutClear(u) ==
  /\ pc[u] = "clear"
  /\ carts' = IF FindCart(u) = 0 THEN carts ELSE [carts EXCEPT ![FindCart(u)].items = <<>>]
  /\ CheckoutEnds(u, "")
  /\ UNCHANGED <<products, nextProductId, orders, users, session, now, calls>>

(***************************************************************************)
(* Orders as the statistics read them.  The Order model and the routes     *)
(* that create an Order and set its status are not among the sources: an   *)
(* Order is the one of 4.4 with the payment status and the creation day of *)
(* section 3, and an admin operation sets its status.                      *)
(***************************************************************************)
MaxStatsOrders == 2
Days == {0, 1}

OrderStatuses == {"pending", "processing", "completed", "delivered", "cancelled"}
PaymentStatuses == {"pending", "completed"}

\* No Order is older than the clock: day is not before any creation day.
ClockAt(day) == \A k \in 1..Len(orders) : orders[k].createdAt <= day

OrderPlaced(u, items, day) ==
  /\ ClockAt(day)
  /\ orders' = Append(orders, [paymentStatus |-> "pending", createdAt |-> day]
                                @@ OrderOf(u, items))
  /\ resp' = Response("order", 0, "", u, 0)
  /\ UNCHANGED <<products, nextProductId, carts, pc, co, pre, users, session, now, calls>>

SetOrderStatus(k, status, paymentStatus) ==
  /\ k \in 1..Len(orders)
  /\ orders' = [orders EXCEPT ![k].status = status, ![k].paymentStatus = paymentStatus]
  /\ resp' = Response("status", 0, "", NoUser, 0)
  /\ UNCHANGED <<products, nextProductId, carts, pc, co, pre, users, session, now, calls>>

(***************************************************************************)
(* getDashboardStats (GET /admin/dashboard, GET /admin/api/stats).  The    *)
(* new-users count and the demo percentage changes are not part of the     *)
(* modelled result.                                                        *)
(***************************************************************************)
LowStockLimit == 10
RecentLimit == 5

RECURSIVE TotalStock(_)
\* product.sizes.reduce((sum, size) => sum + size.quantity, 0)
TotalStock(sizes) ==
  IF sizes = <<>> THEN 0 ELSE sizes[1].quantity + TotalStock(Tail(sizes))

\* A query on a field matches only the documents that have the field.
FieldIs(doc, field, value) == field \in DOMAIN doc /\ doc[field] = value
FieldBetween(doc, field, low, high) ==
  field \in DOMAIN doc /\ doc[field] > low /\ doc[field] < high

\* The sub-queries of the Promise.all, and the revenue aggregation after it.
ParallelQueries ==
  {"products", "orders", "users", "pending", "lowStock", "today", "recent", "newUsers"}
RevenueQuery == "revenue"

\* { $or: [{ status: 'pending' }, { orderStatus: 'pending' }, { status: 'Pending' }] }
PendingMatch(o) ==
  FieldIs(o, "status", "pending") \/ FieldIs(o, "orderStatus", "pending")
    \/ FieldIs(o, "status", "Pending")

\* { $or: [{ stock: { $lt: 10, $gt: 0 } }, { quantity: { $lt: 10, $gt: 0 } }] }
LowStockMatch(p) ==
  FieldBetween(p, "stock", 0, LowStockLimit) \/ FieldBetween(p, "quantity", 0, LowStockLimit)

\* The orders created after order k (of two orders of one day the later position
\* counts as newer).
NewerThan(k) ==
  {j \in 1..Len(orders) :
     \/ orders[j].createdAt > orders[k].createdAt
     \/ orders[j].createdAt = orders[k].createdAt /\ j > k}

\* Faulty variant: sorted by createdAt ascending, the oldest orders first.
RecentOrdersOldestFirst ==
  [i \in 1..Min(RecentLimit, Len(orders)) |->
     CHOOSE k \in 1..Len(orders) : Cardinality(NewerThan(k)) = Len(orders) - i]
\* Order.find().sort({ createdAt: -1 }).limit(5): the positions of the newest orders,
\* the newest first.
RecentOrders ==
  [i \in 1..Min(RecentLimit, Len(orders)) |->
     CHOOSE k \in 1..Len(orders) : Cardinality(NewerThan(k)) = i - 1]

\* The activities: one per recent order in that order, or the welcome entry when
\* there is none.
RecentActivities ==
  IF Len(RecentOrders) = 0 THEN <<[title |-> "Welcome to Admin Panel", order |-> 0]>>
  ELSE [i \in 1..Len(RecentOrders) |-> [title |-> "New Order", order |-> RecentOrders[i]]]

\* Faulty variant: the delivered orders left out of the revenue.
RevenueMatchCompletedOnly(o) ==
  FieldIs(o, "status", "completed") \/ FieldIs(o, "paymentStatus", "completed")
\* { $or: [{ status: 'completed' }, { status: 'delivered' }, { paymentStatus: 'completed' }] }
RevenueMatch(o) ==
  FieldIs(o, "status", "completed") \/ FieldIs(o, "status", "delivered")
    \/ FieldIs(o, "paymentStatus", "completed")

RECURSIVE RevenueOf(_)
\* { $group: { _id: null, total: { $sum: '$totalAmount' } } } over the matching orders.
RevenueOf(os) ==
  IF os = <<>> THEN 0
  ELSE (IF RevenueMatch(os[1]) THEN os[1].totalAmount ELSE 0) + RevenueOf(Tail(os))

\* Math.round(a / b) for a >= 0, b > 0.
Round(a, b) == (2 * a + b) \div (2 * b)

\* if (totalOrders > 0 && totalRevenue > 0) avgOrderValue = Math.round(totalRevenue / totalOrders)
AvgOrderValue(totalRevenue, totalOrders) ==
  IF totalOrders > 0 /\ totalRevenue > 0 THEN Round(totalRevenue, totalOrders) ELSE 0

\* The result of a run in which the Promise.all succeeds.
DashboardStats(revenueFails, today) ==
  LET totalOrders == Len(orders)
      totalRevenue == IF revenueFails THEN 0 ELSE RevenueOf(orders)
  IN [totalProducts |-> Cardinality(DOMAIN products),
      lowStockItems |-> Cardinality({id \in DOMAIN products : LowStockMatch(products[id])}),
      totalOrders |-> totalOrders,
      todaysOrders |-> Cardinality({k \in 1..Len(orders) : orders[k].createdAt >= today}),
      pendingOrders |-> Cardinality({k \in 1..Len(orders) : PendingMatch(orders[k])}),
      totalRevenue |-> totalRevenue,
      avgOrderValue |-> AvgOrderValue(totalRevenue, totalOrders),
      totalUsers |-> Len(users),
      recentActivities |-> RecentActivities]

NoStats == [totalProducts |-> 0 - 1]
StatsResponse(error, stats, fails, today) ==
  [stats |-> stats, fails |-> fails, today |-> today]
    @@ Response("stats", IF error = "" THEN 200 ELSE 500, error, NoUser, 0)

\* Faulty variant: a failure of any sub-query is answered with the defaults.
StatsFailSoft(fails, today) == StatsResponse("", DashboardStats(TRUE, today), fails, today)
\* catch (error) { throw error }: the routes answer without stats.
StatsFail(fails, today) == StatsResponse("StatsUnavailable", NoStats, fails, today)

\* Faulty variant: a failure of the revenue aggregation fails the run as well.
GetDashboardStatsRethrowing(fails, today) ==
  /\ ClockAt(today)
  /\ resp' = IF fails # {} THEN StatsResponse("StatsUnavailable", NoStats, fails, today)
             ELSE StatsResponse("", DashboardStats(FALSE, today), fails, today)
  /\ UNCHANGED <<products, nextProductId, carts, orders, pc, co, pre, users, session, now, calls>>
\* Faulty variant: the run records its revenue on the first order.
GetDashboardStatsCaching(fails, today) ==
  /\ ClockAt(today) /\ orders # <<>>
  /\ orders' = [orders EXCEPT ![1].totalAmount = RevenueOf(orders)]
  /\ resp' = StatsResponse("", DashboardStats(FALSE, today), fails, today)
  /\ UNCHANGED <<products, nextProductId, carts, pc, co, pre, users, session, now, calls>>
\* getDashboardStats with the sub-queries of fails failing, on the day today.
GetDashboardStats(fails, today) ==
  /\ ClockAt(today)
  /\ resp' = IF fails \cap ParallelQueries # {} THEN StatsFail(fails, today)
             ELSE StatsResponse("", DashboardStats(RevenueQuery \in fails, today), fails, today)
  /\ UNCHANGED <<products, nextProductId, carts, orders, pc, co, pre, users, session, now, calls>>

(***************************************************************************)
(* Accounts: the User collection, registration, the admin sign-in and the  *)
(* session it fills.                                                       *)
(***************************************************************************)
\* A text field of a form: absent, or a string, given by its letters once trimmed
\* and lowercased, whether it had capitals and whether blanks surrounded it.
NoField == [kind |-> "absent", text |-> "", capitals |-> FALSE, padded |-> FALSE]
Str(text, capitals, padded) ==
  [kind |-> "text", text |-> text, capitals |-> capitals, padded |-> padded]
Plain(text) == Str(text, FALSE, FALSE)
\* !field of JavaScript: undefined and the empty string are falsy, "  " is not.
Falsy(field) == field.kind = "absent" \/ (field.text = "" /\ ~field.padded)
\* The schema's setters trim: true and lowercase: true.
Trim(field) == [field EXCEPT !.padded = FALSE]
LowerCase(field) == [field EXCEPT !.capitals = FALSE]

\* A password field: absent, or a string of some length.
NoPassword == [kind |-> "absent", text |-> "", length |-> 0]
Password(text, length) == [kind |-> "text", text |-> text, length |-> length]
MinPasswordLength == 6

\* bcrypt.hash
Hash(password) == [hashOf |-> password.text]
\* Faulty variant: every password matches.
CompareAlways(password, hash) == TRUE
\* bcrypt.compare
Compare(password, hash) == hash.hashOf = password.text

NoDate == [set |-> FALSE, at |-> 0]
Date(at) == [set |-> TRUE, at |-> at]

\* new User({ name, email, password }) as save() stores it: the setters applied,
\* the password hashed, the defaults filled in.
NewUser(name, email, password, role) ==
  [name |-> Trim(name), email |-> LowerCase(Trim(email)), password |-> Hash(password),
   role |-> role, loginAttempts |-> 0, lockUntil |-> NoDate]

\* User.findOne({ email }): the position of the account, 0 for none.  The filter
\* is cast by the schema, the stored emails are lowercase and trimmed.
FindUser(email) ==
  IF email.kind = "absent" THEN 0
  ELSE FindIndex({k \in 1..Len(users) : users[k].email = LowerCase(Trim(email))})

\* Faulty variant: save() stores whatever it is given.
RegisterIntoAlways(doc) == TRUE
\* Whether save() stores the new account: name and email are required after the
\* setters, and the unique index on email admits no second account.
RegisterInto(doc) ==
  /\ doc.name.text # ""
  /\ doc.email.text # ""
  /\ \A k \in 1..Len(users) : users[k].email # doc.email

\* What a page request answers: like Response, with the page it redirects to.
PageResponse(op, status, error, location, s) ==
  Response(op, status, error, NoUser, 0) @@ [location |-> location, session |-> s]

\* POST /register
Register(body) ==
  /\ LET missing == Falsy(body.name) \/ Falsy(body.email) \/ Falsy(body.password)
                    \/ Falsy(body.confirm_password)
         errors == missing \/ body.password # body.confirm_password
                   \/ body.password.length < MinPasswordLength
         doc == NewUser(body.name, body.email, body.password, "customer")
     IN IF body.password.kind = "absent"
        THEN /\ resp' = PageResponse("register", 0, "TypeError", "", "none")
             /\ UNCHANGED users
        ELSE IF errors
        THEN /\ resp' = PageResponse("register", 200, "invalid", "", "none")
             /\ UNCHANGED users
        ELSE IF FindUser(body.email) > 0
        THEN /\ resp' = PageResponse("register", 200, "Email is already registered", "", "none")
             /\ UNCHANGED users
        ELSE IF ~RegisterInto(doc)
        THEN /\ resp' = PageResponse("register", 302, "Registration failed", "/register", "none")
             /\ UNCHANGED users
        ELSE /\ users' = Append(users, doc)
             /\ resp' = PageResponse("register", 302, "", "/login", "none")
  /\ UNCHANGED <<products, nextProductId, carts, orders, pc, co, pre, session, now, calls>>

Sessions == {"s1", "s2"}
NoSessionUser == [email |-> NoField, role |-> "none"]

\* Faulty variant: every session passes.
IsAdminSessionAlways(s) == TRUE
\* The session check of the admin routes passes:
\* !req.session.user || req.session.user.role !== 'admin' does not hold.
IsAdminSession(s) == session[s] # NoSessionUser /\ session[s].role = "admin"

\* POST /admin-login
AdminLogin(s, email, password) ==
  /\ LET k == FindUser(email)
     IN IF k = 0
        THEN /\ resp' = PageResponse("admin-login", 302, "Admin not found", "/admin-login", s)
             /\ UNCHANGED session
        ELSE IF password.kind = "absent"
        THEN /\ resp' = PageResponse("admin-login", 302, "Login failed", "/admin-login", s)
             /\ UNCHANGED session
        ELSE IF ~Compare(password, users[k].password)
        THEN /\ resp' = PageResponse("admin-login", 302, "Invalid password", "/admin-login", s)
             /\ UNCHANGED session
        ELSE IF users[k].role # "admin"
        THEN /\ resp' = PageResponse("admin-login", 302, "Not an admin account",
                                     "/admin-login", s)
             /\ UNCHANGED session
        ELSE /\ session' = [session EXCEPT ![s] =
                              [email |-> users[k].email, role |-> users[k].role]]
             /\ resp' = PageResponse("admin-login", 302, "", "/admin/dashboard", s)
  /\ UNCHANGED <<products, nextProductId, carts, orders, pc, co, pre, users, now, calls>>

\* GET /logout: req.session.destroy
Logout(s) ==
  /\ session' = [session EXCEPT ![s] = NoSessionUser]
  /\ resp' = PageResponse("logout", 302, "", "/", s)
  /\ UNCHANGED <<products, nextProductId, carts, orders, pc, co, pre, users, now, calls>>

\* The answer of a guarded admin route to a session that is not an admin's.
Denied(op, status, s) ==
  /\ resp' = PageResponse(op, status, "denied", IF status = 302 THEN "/admin-login" ELSE "", s)
  /\ UNCHANGED <<products, nextProductId, carts, orders, pc, co, pre, users, session, now,
                 calls>>

\* The admin pages that list records: products, orders, users, settings and the
\* details of an order or of a user.
AdminPages == {"products", "orders", "users", "settings", "order", "user"}
AdminPage(s, page) ==
  IF ~IsAdminSession(s) THEN Denied(page, 302, s)
  ELSE /\ resp' = PageResponse(page, 200, "", "", s)
                    @@ [records |-> [products |-> products, orders |-> orders,
                                     users |-> users]]
       /\ UNCHANGED <<products, nextProductId, carts, orders, pc, co, pre, users, session,
                      now, calls>>

\* GET /admin/dashboard and GET /admin/api/stats
AdminDashboard(s, fails, today) ==
  IF ~IsAdminSession(s) THEN Denied("dashboard", 302, s) ELSE GetDashboardStats(fails, today)
AdminApiStats(s, fails, today) ==
  IF ~IsAdminSession(s) THEN Denied("api/stats", 401, s) ELSE GetDashboardStats(fails, today)

\* POST /admin/products/create with its session check.
AdminProductsCreate(s, body) ==
  IF ~IsAdminSession(s) THEN Denied("create", 302, s) ELSE AdminCreate(body)

(***************************************************************************)
(* The login attempts of an account and its lock.                          *)
(***************************************************************************)
LockThreshold == 5
\* 24 * 60 * 60 * 1000 ms, in ticks of the clock
LockDuration == 2

\* Faulty variant: no account counts as locked.
IsLockedNever(user) == FALSE
\* userSchema.methods.isLocked: !!(this.lockUntil && this.lockUntil > Date.now())
IsLocked(user) == user.lockUntil.set /\ user.lockUntil.at > now

\* What incLoginAttempts returns: the update it has sent (this.updateOne).
UpdateSent(update) == Response("incLoginAttempts", 0, "", NoUser, 0) @@ [update |-> update]

\* A caller loads the account at position k (User.findOne): it holds a copy.
LoadUser(r, k) ==
  /\ calls[r] = NoCall
  /\ k \in 1..Len(users)
  /\ calls' = [calls EXCEPT ![r] = [op |-> "incLoginAttempts", id |-> k, user |-> users[k]]]
  /\ UNCHANGED <<products, nextProductId, carts, orders, pc, co, pre, resp, users, session,
                 now>>

\* userSchema.methods.incLoginAttempts on the caller's copy: the decision is taken
\* on the copy, the update is applied to the stored document.
IncLoginAttempts(r) ==
  /\ calls[r].op = "incLoginAttempts"
  /\ LET this == calls[r].user
         k == calls[r].id
     IN IF this.lockUntil.set /\ this.lockUntil.at < now
        THEN /\ users' = [users EXCEPT ![k].loginAttempts = 1, ![k].lockUntil = NoDate]
             /\ resp' = UpdateSent("$set loginAttempts, $unset lockUntil")
        ELSE IF this.loginAttempts + 1 >= LockThreshold /\ ~IsLocked(this)
        THEN /\ users' = [users EXCEPT ![k].loginAttempts = @ + 1,
                                        ![k].lockUntil = Date(now + LockDuration)]
             /\ resp' = UpdateSent("$inc loginAttempts, $set lockUntil")
        ELSE /\ users' = [users EXCEPT ![k].loginAttempts = @ + 1]
             /\ resp' = UpdateSent("$inc loginAttempts")
  /\ calls' = [calls EXCEPT ![r] = NoCall]
  /\ UNCHANGED <<products, nextProductId, carts, orders, pc, co, pre, session, now>>

\* Date.now() advances.
Tick ==
  /\ now' = now + 1
  /\ UNCHANGED <<products, nextProductId, carts, orders, pc, co, pre, resp, users, session,
                 calls>>

(***************************************************************************)
(* The system.                                                             *)
(***************************************************************************)
Init ==
  /\ products = <<>>
  /\ nextProductId = 1
  /\ carts = <<>>
  /\ orders = <<>>
  /\ pc = [u \in Users |-> Idle]
  /\ co = [u \in Users |-> NoCheckout]
  /\ pre = [u \in Users |-> NoSnapshot]
  /\ resp = NoResponse
  /\ users = <<>>
  /\ session = [s \in Sessions |-> NoSessionUser]
  /\ now = 0
  /\ calls = [r \in Callers |-> NoCall]

AllIdle == \A u \in Users : pc[u] = Idle

(***************************************************************************)
(* The requests of the model.                                              *)
(***************************************************************************)
AddBody(quantity, size, color) == [quantity |-> quantity, size |-> size, color |-> color]
Variants == {<<9, "Black">>, <<9, "Red">>, <<10, "Black">>}
QuantityInputs == {Absent, Num(0), Num(0 - 1), Text}

\* The first shopper adds any variant with any quantity field, the second shopper
\* and the anonymous visitor one variant.
CartRequests ==
  {<<"u1", AddBody(q, v[1], v[2])>> : q \in QuantityInputs, v \in Variants}
    \cup {<<u, AddBody(Absent, 9, "Black")>> : u \in {"u2", NoUser}}
\* The adds before a checkout: the quantity field left out (1).
ShopRequests ==
  {<<"u1", AddBody(Absent, v[1], v[2])>> : v \in Variants}
    \cup {<<"u2", AddBody(Absent, 9, "Black")>>}

SizeFields(a, b) ==
  [s \in MinSizeField..MaxSizeField |-> IF s = 9 THEN a ELSE IF s = 10 THEN b ELSE Absent]
\* An uploaded file (multer with the Cloudinary storage).
File(k) == [path |-> k, filename |-> k]
NoCodes == [name \in {} |-> DefaultCode]
\* A product form with the given prices and sizes, no color chosen and no file.
ProductForm(price, discount, sel, a, b) ==
  [name |-> "Oxford", price |-> price, discountPrice |-> discount, restValid |-> TRUE,
   sizes |-> sel, fields |-> SizeFields(a, b),
   colors |-> NoSelection, codes |-> NoCodes, files |-> <<>>]
\* The same with one image uploaded, as a creation needs.
ProductBody(price, discount, sel, a, b) ==
  [ProductForm(price, discount, sel, a, b) EXCEPT !.files = <<File(1)>>]
BothSizes == Array(<<Num(9), Num(10)>>)
CreateBodies ==
  {ProductBody(Num(1299), Absent, BothSizes, Num(2), b) : b \in {Num(1), Num(0 - 1)}}
EditBodies ==
  {ProductForm(Num(1299), Absent, BothSizes, a, Num(2)) : a \in {Text, Num(0 - 1)}}

\* Edits of the prices alone: the sizes are not sent.
PriceEditBodies ==
  {ProductForm(Num(1299), Num(899), NoSelection, Absent, Absent),
   ProductForm(Num(1499), Num(0 - 1), NoSelection, Absent, Absent)}

(***************************************************************************)
(* SpecCart: the cart engine and the catalog; every handler runs to        *)
(* completion.                                                             *)
(***************************************************************************)
NextCart ==
  \/ \E body \in CreateBodies : AdminCreate(body)
  \/ \E id \in ProductIds : AdminDelete(id)
  \/ \E r \in CartRequests, id \in ProductIds : AddItem(r[1], id, r[2])
  \/ \E u \in Users \cup {NoUser}, lookupFails \in BOOLEAN : CartCount(u, lookupFails)

SpecCart == Init /\ [][NextCart]_vars

(***************************************************************************)
(* Spec: the whole shop, every handler (the checkout included) running to  *)
(* completion: no request starts while a checkout runs.                    *)
(***************************************************************************)
Next ==
  \/ AllIdle /\ \E body \in CreateBodies : AdminCreate(body)
  \/ AllIdle /\ \E id \in ProductIds, body \in EditBodies : AdminEdit(id, body)
  \/ AllIdle /\ \E id \in ProductIds : AdminDelete(id)
  \/ AllIdle /\ \E r \in ShopRequests, id \in ProductIds : AddItem(r[1], id, r[2])
  \/ AllIdle /\ \E u \in Users : CartCount(u, FALSE)
  \/ AllIdle /\ \E u \in Users : CheckoutLoad(u)
  \/ \E u \in Users : CheckoutVerify(u)
  \/ \E u \in Users : CheckoutDecrement(u)
  \/ \E u \in Users : CheckoutOrder(u)
  \/ \E u \in Users : CheckoutClear(u)

Spec == Init /\ [][Next]_vars

(***************************************************************************)
(* SpecConc: product creation, adds and checkouts, the steps of the        *)
(* checkouts of different users interleaving.                              *)
(***************************************************************************)
NextConc ==
  \/ \E body \in CreateBodies : AdminCreate(body)
  \/ \E r \in ShopRequests, id \in ProductIds : AddItem(r[1], id, r[2])
  \/ \E u \in Users : CheckoutLoad(u)
  \/ \E u \in Users : CheckoutVerify(u)
  \/ \E u \in Users : CheckoutDecrement(u)
  \/ \E u \in Users : CheckoutOrder(u)
  \/ \E u \in Users : CheckoutClear(u)

SpecConc == Init /\ [][NextConc]_vars

(***************************************************************************)
(* SpecLines: the lines of the carts under adds, removals and edits of the *)
(* product's prices; every handler runs to completion.                     *)
(***************************************************************************)
NextLines ==
  \/ \E body \in CreateBodies : AdminCreate(body)
  \/ \E id \in ProductIds, body \in PriceEditBodies : AdminEdit(id, body)
  \/ \E r \in ShopRequests, id \in ProductIds : AddItem(r[1], id, r[2])
  \/ \E r \in ShopRequests, id \in ProductIds : RemoveItem(r[1], id, r[2].size, r[2].color)

SpecLines == Init /\ [][NextLines]_vars

(***************************************************************************)
(* SpecStats: the dashboard statistics over a catalog and orders whose     *)
(* status the admin sets.                                                  *)
(***************************************************************************)
\* A product without size fields gets the default size entry.
StatsCreateBodies ==
  CreateBodies \cup {ProductBody(Num(1299), Absent, NoSelection, Absent, Absent)}

\* The lines of the orders: one pair at 1299, or one pair at 899.
OrderLines ==
  {<<[product |-> 1, name |-> "Oxford", price |-> 1299, discountedPrice |-> d,
      quantity |-> 1, size |-> 9, color |-> "Black"]>> : d \in {NoDiscount, Discount(899)}}

FailingQueries == {{}} \cup {{q} : q \in ParallelQueries \cup {RevenueQuery}}

NextStats ==
  \/ \E body \in StatsCreateBodies : AdminCreate(body)
  \/ Len(orders) < MaxStatsOrders
       /\ \E items \in OrderLines, day \in Days : OrderPlaced("u1", items, day)
  \/ \E k \in 1..MaxStatsOrders, s \in OrderStatuses, p \in PaymentStatuses :
       SetOrderStatus(k, s, p)
  \/ \E fails \in FailingQueries, today \in Days : GetDashboardStats(fails, today)

SpecStats == Init /\ [][NextStats]_vars

(***************************************************************************)
(* SpecCatalog: the admin's product forms in their variety: sizes checked  *)
(* once, twice or not at all, quantity fields missing, zero, negative or   *)
(* not numeric, colors chosen or not, one or more images.                  *)
(***************************************************************************)
MaxImages == 3

SizeSelections ==
  {NoSelection, Single(Num(9)), Single(Text), BothSizes, Array(<<Num(9), Num(9)>>)}
ColorSelections ==
  {NoSelection, Single("Black"), Single(""), Array(<<"Black", "Tan">>),
   Array(<<"Black", " ", "Tan">>), Array(<<"Black", "Tan", "Red">>)}
Uploads == {[i \in 1..n |-> File(i)] : n \in 0..MaxImages}

\* The sizes in their variety with one image or three images over two colors, and
\* the colors and images in their variety with both sizes.
CatalogCreateBodies ==
  {[ProductForm(Num(1299), Absent, sel, a, b) EXCEPT !.colors = look[1], !.files = look[2]] :
     sel \in SizeSelections, a \in {Absent, Text, Num(0 - 1), Num(0), Num(2)},
     b \in {Absent, Num(3)},
     look \in {<<NoSelection, <<File(1)>> >>,
               <<Array(<<"Black", "Tan">>), <<File(1), File(2), File(3)>> >>}}
  \cup
  {[ProductForm(Num(1299), Absent, BothSizes, Num(2), Num(3))
      EXCEPT !.colors = colors, !.files = files] :
     colors \in ColorSelections, files \in Uploads}
\* Edits: the sizes resent, with or without new colors and a new image.
CatalogEditBodies ==
  {[ProductForm(Num(1299), Absent, sel, a, Num(3)) EXCEPT !.colors = look[1], !.files = look[2]] :
     sel \in {BothSizes, Array(<<Num(9), Num(9)>>)}, a \in {Text, Num(0 - 1), Num(2)},
     look \in {<<NoSelection, <<>> >>, <<Array(<<"Tan">>), <<File(1)>> >>}}

NextCatalog ==
  \/ \E body \in CatalogCreateBodies : AdminCreate(body)
  \/ \E id \in ProductIds, body \in CatalogEditBodies : AdminEdit(id, body)
  \/ \E id \in ProductIds : AdminDelete(id)

SpecCatalog == Init /\ [][NextCatalog]_vars

(***************************************************************************)
(* SpecAccounts: registration, the admin sign-in and the session-guarded   *)
(* admin routes, over a store that holds an admin account from the start   *)
(* (no route grants the admin role).                                       *)
(***************************************************************************)
AdminPassword == Password("admin-pass", 10)
GoodPassword == Password("secret", 6)
ShortPassword == Password("short", 5)

SeededUsers == <<NewUser(Plain("Root"), Plain("root@shop"), AdminPassword, "admin")>>

InitAccounts ==
  /\ products = <<>>
  /\ nextProductId = 1
  /\ carts = <<>>
  /\ orders = <<>>
  /\ pc = [u \in Users |-> Idle]
  /\ co = [u \in Users |-> NoCheckout]
  /\ pre = [u \in Users |-> NoSnapshot]
  /\ resp = NoResponse
  /\ users = SeededUsers
  /\ session = [s \in Sessions |-> NoSessionUser]
  /\ now = 0
  /\ calls = [r \in Callers |-> NoCall]

Blank == Str("", FALSE, TRUE)
RegisterBodies ==
  [name : {NoField, Blank, Plain("Ann")},
   email : {NoField, Blank, Plain("ann@shop"), Str("ann@shop", TRUE, TRUE), Plain("root@shop")},
   password : {NoPassword, ShortPassword, GoodPassword},
   confirm_password : {NoPassword, ShortPassword, GoodPassword}]
LoginEmails ==
  {NoField, Plain("nobody@shop"), Plain("ann@shop"), Plain("root@shop"),
   Str("root@shop", TRUE, TRUE)}
LoginPasswords == {NoPassword, GoodPassword, AdminPassword}

NextAccounts ==
  \/ \E body \in RegisterBodies : Register(body)
  \/ \E s \in Sessions, email \in LoginEmails, password \in LoginPasswords :
       AdminLogin(s, email, password)
  \/ \E s \in Sessions : Logout(s)
  \/ \E s \in Sessions, page \in AdminPages : AdminPage(s, page)
  \/ \E s \in Sessions, fails \in {{}, {RevenueQuery}} : AdminDashboard(s, fails, 0)
  \/ \E s \in Sessions, fails \in {{}, {RevenueQuery}} : AdminApiStats(s, fails, 0)
  \/ \E s \in Sessions, body \in CreateBodies : AdminProductsCreate(s, body)

SpecAccounts == InitAccounts /\ [][NextAccounts]_vars

(***************************************************************************)
(* SpecLock: the login attempts of the seeded account, one call after the  *)
(* other, each on a freshly loaded copy, while the clock advances.         *)
(* SpecLockRace: the same with two callers whose calls interleave.         *)
(***************************************************************************)
MaxClock == 6
MaxAttempts == 7

\* The calls stop once some account has MaxAttempts attempts.
AttemptsLeft == \A k \in 1..Len(users) : users[k].loginAttempts < MaxAttempts

NextLock ==
  \/ AttemptsLeft /\ \E k \in 1..Len(users) : LoadUser("r1", k)
  \/ IncLoginAttempts("r1")
  \/ now < MaxClock /\ Tick

SpecLock == InitAccounts /\ [][NextLock]_vars

NextLockRace ==
  \/ AttemptsLeft /\ \E r \in Callers, k \in 1..Len(users) : LoadUser(r, k)
  \/ \E r \in Callers : IncLoginAttempts(r)
  \/ now < MaxClock /\ Tick

SpecLockRace == InitAccounts /\ [][NextLockRace]_vars

(***************************************************************************)
(* SpecRace: adds of two callers whose lookups and saves interleave.       *)
(***************************************************************************)
NextRace ==
  \/ \E body \in CreateBodies : AdminCreate(body)
  \/ \E r \in Callers, req \in ShopRequests, id \in ProductIds :
       AddItemFind(r, req[1], id, req[2])
  \/ \E r \in Callers, uniqueUser \in BOOLEAN : AddItemSave(r, uniqueUser)

SpecRace == Init /\ [][NextRace]_vars

(***************************************************************************)
(* SpecRecent: the dashboard statistics over more orders than the recent   *)
(* activities show.                                                        *)
(***************************************************************************)
MaxRecentOrders == 6

NextRecent ==
  \/ Len(orders) < MaxRecentOrders
       /\ \E day \in Days : OrderPlaced("u1", CHOOSE items \in OrderLines : TRUE, day)
  \/ \E fails \in FailingQueries, today \in Days : GetDashboardStats(fails, today)

SpecRecent == Init /\ [][NextRecent]_vars

(***************************************************************************)
(* Notions the properties are stated with.                                 *)
(***************************************************************************)
\* The positions of the cart documents of user u in a Cart collection.
CartsOf(cs, u) == {i \in 1..Len(cs) : cs[i].user = u}

\* The lines of u's cart in a Cart collection; none without a cart.
CartItems(cs, u) ==
  IF CartsOf(cs, u) = {} THEN <<>>
  ELSE cs[CHOOSE i \in CartsOf(cs, u) : \A j \in CartsOf(cs, u) : i <= j].items

\* The positions of the lines with a key.
LinesWith(items, id, size, color) ==
  {i \in 1..Len(items) :
     items[i].product = id /\ items[i].size = size /\ items[i].color = color}

\* The sum of the quantities of the lines at the positions 1..n that satisfy Pick.
PartialQuantity(items, n, Pick(_)) ==
  LET S[i \in 0..n] ==
        IF i = 0 THEN 0 ELSE S[i - 1] + (IF Pick(items[i]) THEN items[i].quantity ELSE 0)
  IN S[n]

TotalQuantity(items) == PartialQuantity(items, Len(items), LAMBDA item : TRUE)

QuantityWith(items, id, size, color) ==
  PartialQuantity(items, Len(items),
                  LAMBDA item : item.product = id /\ item.size = size /\ item.color = color)

\* The quantity an add request asks for.
Requested(body) == ParseInt(QuantityOrDefault(body.quantity)).v

(***************************************************************************)
(* C1: after a successful add, the user's cart holds at most one line per  *)
(* (product, size, color); the quantity under the key of the add has grown *)
(* by the quantity added (a new line starts from 0) and the quantity under *)
(* every other key is as before.  So the adds of q1 and q2 with one key    *)
(* leave one line of quantity q1 + q2.                                     *)
(***************************************************************************)
C1_AddsMergePerKey ==
  [][\A r \in CartRequests, id \in ProductIds :
       (AddItem(r[1], id, r[2]) /\ resp'.success) =>
         \A p \in ProductIds, v \in Variants :
           /\ Cardinality(LinesWith(CartItems(carts', r[1]), p, v[1], v[2])) <= 1
           /\ QuantityWith(CartItems(carts', r[1]), p, v[1], v[2])
                = QuantityWith(CartItems(carts, r[1]), p, v[1], v[2])
                  + (IF p = id /\ v[1] = r[2].size /\ v[2] = r[2].color
                     THEN Requested(r[2]) ELSE 0)]_vars

\* Two adds of 1 with one key have left one line of quantity 2 beside another line.
C1_Witness ==
  /\ resp.op = "addItem" /\ resp.success
  /\ Len(CartItems(carts, "u1")) = 2
  /\ CartItems(carts, "u1")[1].quantity = 2

(***************************************************************************)
(* C6: every cart line has a quantity >= 1, whatever quantity the add      *)
(* requests carried.                                                       *)
(***************************************************************************)
C6_QuantityAtLeastOne ==
  \A i \in 1..Len(carts) : \A k \in 1..Len(carts[i].items) : carts[i].items[k].quantity >= 1

(***************************************************************************)
(* C7: there is at most one cart per user; a cart of a user comes to exist *)
(* only by a successful add of that user; an add of one user leaves the    *)
(* carts of the other users as they are.                                   *)
(***************************************************************************)
C7_OneCartPerUser ==
  [][/\ \A u \in Users : Cardinality(CartsOf(carts', u)) <= 1
     /\ \A u \in Users :
          (CartsOf(carts, u) = {} /\ CartsOf(carts', u) # {}) =>
            \E r \in CartRequests, id \in ProductIds :
              r[1] = u /\ AddItem(r[1], id, r[2]) /\ resp'.success
     /\ \A r \in CartRequests, id \in ProductIds :
          AddItem(r[1], id, r[2]) =>
            \A w \in Users \ {r[1]} :
              {carts'[i] : i \in CartsOf(carts', w)} = {carts[i] : i \in CartsOf(carts, w)}]_vars

\* Both users have a cart with a line, the second created while the first existed.
C7_Witness ==
  /\ CartItems(carts, "u1") # <<>> /\ CartItems(carts, "u2") # <<>>
  /\ resp.op = "addItem" /\ resp.success

(***************************************************************************)
(* C8: the cart count answers 200 with success in every case: 0 for an     *)
(* anonymous caller, for a user without a cart and when the lookup fails,  *)
(* else the sum of the quantities of the lines of the user's cart.  The    *)
(* cartCount of a successful add is the count taken right after it, which  *)
(* is the count before it plus the quantity added.                         *)
(***************************************************************************)
C8_CountIsSumOfQuantities ==
  [][/\ \A u \in Users \cup {NoUser}, f \in BOOLEAN :
          CartCount(u, f) =>
            /\ resp'.status = 200 /\ resp'.success
            /\ resp'.count = IF u = NoUser \/ f \/ CartsOf(carts, u) = {} THEN 0
                              ELSE TotalQuantity(CartItems(carts, u))
     /\ \A r \in CartRequests, id \in ProductIds :
          (AddItem(r[1], id, r[2]) /\ resp'.success) =>
            /\ resp'.count = TotalQuantity(CartItems(carts', r[1]))
            /\ resp'.count = CountOf(r[1], FALSE)'
            /\ CountOf(r[1], FALSE)' = CountOf(r[1], FALSE) + Requested(r[2])]_vars

\* A count of 3 over two lines has been answered.
C8_Witness ==
  /\ resp.op = "count" /\ resp.user = "u1" /\ resp.count = 3
  /\ Len(CartItems(carts, "u1")) = 2

(***************************************************************************)
(* C9: an add for a product that is not in the catalog answers 404 with    *)
(* success false and changes neither the carts nor anything else.          *)
(***************************************************************************)
C9_MissingProductRejected ==
  [][\A r \in CartRequests, id \in ProductIds :
       (AddItem(r[1], id, r[2]) /\ r[1] # NoUser /\ ~ProductExists(id)) =>
         /\ resp'.status = 404 /\ ~resp'.success /\ resp'.error = "ProductNotFound"
         /\ UNCHANGED <<products, nextProductId, carts, orders>>]_vars

\* A 404 was answered to a user who has a cart with a line (of a product since deleted).
C9_Witness ==
  /\ resp.op = "addItem" /\ resp.status = 404
  /\ CartItems(carts, resp.user) # <<>>

(***************************************************************************)
(* The checkout of user u, seen from the step that ends it: the cart and   *)
(* the stock it began with are those of pre[u].                            *)
(***************************************************************************)
CheckoutReturns(u) == pc[u] # Idle /\ pc'[u] = Idle

CartAtCall(u) == CartItems(pre[u].carts, u)

StockAtCall(u, item) == StockIn(pre[u].products, item.product, item.size)

\* The quantities of the lines 1..n of the cart that have the (product, size) of item.
DemandUpTo(u, n, item) ==
  PartialQuantity(CartAtCall(u), n,
                  LAMBDA other : other.product = item.product /\ other.size = item.size)

SomeLineExceedsStock(u) ==
  \E i \in 1..Len(CartAtCall(u)) : CartAtCall(u)[i].quantity > StockAtCall(u, CartAtCall(u)[i])

EveryLineWithinStock(u) ==
  /\ CartAtCall(u) # <<>>
  /\ \A i \in 1..Len(CartAtCall(u)) :
       CartAtCall(u)[i].quantity <= StockAtCall(u, CartAtCall(u)[i])

\* Every line's size exists, and the lines up to each line that share its
\* (product, size) ask together for no more than the stock.
EveryDemandWithinStock(u) ==
  \A i \in 1..Len(CartAtCall(u)) :
    /\ SizeEntry(pre[u].products, CartAtCall(u)[i].product, CartAtCall(u)[i].size) # 0
    /\ DemandUpTo(u, i, CartAtCall(u)[i]) <= StockAtCall(u, CartAtCall(u)[i])

\* The catalog of the call with every (product, size) reduced by what the cart asks of it.
StockAfterCheckout(u) ==
  [id \in DOMAIN pre[u].products |->
     [pre[u].products[id] EXCEPT !.sizes =
        [k \in 1..Len(pre[u].products[id].sizes) |->
           [pre[u].products[id].sizes[k] EXCEPT !.quantity =
              IF k = SizeEntry(pre[u].products, id, pre[u].products[id].sizes[k].size)
              THEN @ - DemandUpTo(u, Len(CartAtCall(u)),
                                  [product |-> id, size |-> pre[u].products[id].sizes[k].size])
              ELSE @]]]]

\* One Order more, of u; the stock reduced; u's cart empty.
CheckoutSucceeded(u) ==
  /\ resp'.op = "checkout" /\ resp'.success
  /\ Len(orders') = pre[u].orders + 1
  /\ orders'[Len(orders')].user = u /\ orders'[Len(orders')].items = CartAtCall(u)
  /\ products' = StockAfterCheckout(u)
  /\ CartItems(carts', u) = <<>>

(***************************************************************************)
(* C2: a checkout of a cart with a line whose quantity exceeds the stock   *)
(* of its (product, size) ends with InsufficientStock, and then no Order   *)
(* was created, the whole catalog is as it was when the checkout began     *)
(* and so are all carts.                                                   *)
(***************************************************************************)
C2_ShortStockChangesNothing ==
  [][\A u \in Users :
       (CheckoutReturns(u) /\ SomeLineExceedsStock(u)) =>
         /\ resp'.op = "checkout" /\ resp'.error = "InsufficientStock"
         /\ Len(orders') = pre[u].orders
         /\ products' = pre[u].products
         /\ carts' = pre[u].carts]_vars

\* InsufficientStock was answered for a cart whose first line is within stock and
\* whose second line is not.
C2_Witness ==
  /\ resp.op = "checkout" /\ resp.error = "InsufficientStock"
  /\ Len(CartItems(carts, resp.user)) = 2
  /\ LinePasses(CartItems(carts, resp.user)[1])
  /\ ~LinePasses(CartItems(carts, resp.user)[2])

(***************************************************************************)
(* C3 as claimed: a checkout of a non-empty cart in which every line's     *)
(* quantity is at most the stock of its (product, size) succeeds: one      *)
(* Order more, the stock reduced by the lines' quantities, the cart empty. *)
(***************************************************************************)
C3_EveryLineWithinStockSucceeds ==
  [][\A u \in Users :
       (CheckoutReturns(u) /\ EveryLineWithinStock(u)) => CheckoutSucceeded(u)]_vars

(***************************************************************************)
(* C3 amended: the checkout succeeds so when, besides, every line's size   *)
(* exists in the catalog and, for every line, the quantities of the lines  *)
(* up to it in cart order with its (product, size) sum to at most the      *)
(* stock: lines of one size share the stock whatever their color.          *)
(***************************************************************************)
C3_SharedDemandWithinStockSucceeds ==
  [][\A u \in Users :
       (CheckoutReturns(u) /\ EveryLineWithinStock(u) /\ EveryDemandWithinStock(u))
         => CheckoutSucceeded(u)]_vars

\* An Order of two lines of one (product, size) in two colors, each of quantity 1.
C3_Witness ==
  /\ resp.op = "checkout" /\ resp.success
  /\ Len(orders) = 1 /\ Len(orders[1].items) = 2
  /\ orders[1].items[1].size = orders[1].items[2].size
  /\ orders[1].items[1].quantity = 1 /\ orders[1].items[2].quantity = 1

(***************************************************************************)
(* C10: an add leaves the catalog as it is and, for a product that exists, *)
(* succeeds whatever the stock of the chosen size; the sizes of a product  *)
(* change only in a step of an admin edit or of a checkout's decrement.    *)
(***************************************************************************)
C10_AddIgnoresStock ==
  [][/\ \A r \in ShopRequests, id \in ProductIds :
          AddItem(r[1], id, r[2]) =>
            /\ products' = products
            /\ ProductExists(id) => resp'.success
     /\ \A id \in ProductIds :
          (ProductExists(id) /\ id \in DOMAIN products'
             /\ products'[id].sizes # products[id].sizes) =>
            \/ \E body \in EditBodies : AdminEdit(id, body)
            \/ \E u \in Users : CheckoutDecrement(u)]_vars

\* An add has succeeded for a size the product has no entry for, and the same cart
\* holds a line that asks for more than the stock of its size.
C10_Witness ==
  /\ resp.op = "addItem" /\ resp.success
  /\ \E i \in 1..Len(CartItems(carts, resp.user)) :
       SizeEntry(products, CartItems(carts, resp.user)[i].product,
                 CartItems(carts, resp.user)[i].size) = 0
  /\ \E i \in 1..Len(CartItems(carts, resp.user)) :
       /\ SizeEntry(products, CartItems(carts, resp.user)[i].product,
                    CartItems(carts, resp.user)[i].size) # 0
       /\ ~LinePasses(CartItems(carts, resp.user)[i])

OneLinePerSize(items) ==
  \A i, j \in 1..Len(items) :
    (items[i].product = items[j].product /\ items[i].size = items[j].size) => i = j

C5_LoserLeavesNothingDecremented ==
  [][/\ \A id \in DOMAIN products' :
          \A k \in 1..Len(products'[id].sizes) : products'[id].sizes[k].quantity >= 0
     /\ \A u \in Users :
          (pc[u] = "decrement" /\ CheckoutReturns(u) /\ OneLinePerSize(co[u].items))
            => /\ co[u].i = 1
               /\ Len(orders') = Len(orders)]_vars

(***************************************************************************)
(* The line of a key in a cart, and what a line keeps of the product.      *)
(***************************************************************************)
LineWith(items, id, size, color) ==
  items[CHOOSE i \in LinesWith(items, id, size, color) : TRUE]

Snapshot(item) == <<item.name, item.price, item.discountedPrice>>

\* The add of request r for product id has succeeded and made a new line.
AddedNewLine(r, id) ==
  /\ AddItem(r[1], id, r[2]) /\ resp'.success
  /\ LinesWith(CartItems(carts, r[1]), id, r[2].size, r[2].color) = {}
  /\ LinesWith(CartItems(carts', r[1]), id, r[2].size, r[2].color) # {}

(***************************************************************************)
(* C11: the name, price and discounted price of a cart line are those of   *)
(* the product when the line was created: in no step (an edit of the       *)
(* product's prices, a later add with the same key, anything else) does a  *)
(* line that stays in the cart change them, and a line created by an add   *)
(* carries the prices the product has at that add.                         *)
(***************************************************************************)
C11_SnapshotFixedAtCreation ==
  [][/\ \A u \in Users, p \in ProductIds, v \in Variants :
          (/\ LinesWith(CartItems(carts, u), p, v[1], v[2]) # {}
           /\ LinesWith(CartItems(carts', u), p, v[1], v[2]) # {})
            => Snapshot(LineWith(CartItems(carts', u), p, v[1], v[2]))
                 = Snapshot(LineWith(CartItems(carts, u), p, v[1], v[2]))
     /\ \A r \in ShopRequests, id \in ProductIds :
          AddedNewLine(r, id) =>
            Snapshot(LineWith(CartItems(carts', r[1]), id, r[2].size, r[2].color))
              = <<products[id].name, products[id].price, products[id].discountPrice>>]_vars

\* After an edit of the price, an add with the key of the first line has raised its
\* quantity and left its price, beside a line created after the edit.
C11_Witness ==
  /\ resp.op = "addItem" /\ resp.success
  /\ Len(CartItems(carts, "u1")) = 2
  /\ CartItems(carts, "u1")[1].quantity = 2
  /\ CartItems(carts, "u1")[1].price = 1299
  /\ CartItems(carts, "u1")[2].price = 1499
  /\ ProductExists(1) /\ products[1].price = 1499

(***************************************************************************)
(* C12: the effective unit price is the discount price when that is        *)
(* present and non-negative, else the base price (899 for 1299 with a      *)
(* discount of 899, 1299 without a discount); a new line has the effective *)
(* price of its product; the cart total is the sum of effective price      *)
(* times quantity over the lines, the cart count the sum of quantities.    *)
(***************************************************************************)
SumOver(items, Value(_)) ==
  LET S[i \in 0..Len(items)] == IF i = 0 THEN 0 ELSE S[i - 1] + Value(items[i])
  IN S[Len(items)]

C12_EffectivePriceAndTotals ==
  [][/\ \A i \in 1..Len(carts') : \A k \in 1..Len(carts'[i].items) :
          LET line == carts'[i].items[k]
          IN /\ ~line.discountedPrice.present => EffectivePrice(line) = line.price
             /\ (line.discountedPrice.present /\ line.discountedPrice.v < 0)
                  => EffectivePrice(line) = line.price
             /\ (line.discountedPrice.present /\ line.discountedPrice.v >= 0)
                  => EffectivePrice(line) = line.discountedPrice.v
             /\ (line.price = 1299 /\ line.discountedPrice = Discount(899))
                  => EffectivePrice(line) = 899
             /\ (line.price = 1299 /\ line.discountedPrice = NoDiscount)
                  => EffectivePrice(line) = 1299
     /\ \A i \in 1..Len(carts') :
          /\ CartTotal(carts'[i].items)
               = SumOver(carts'[i].items,
                         LAMBDA line : line.quantity *
                           (IF line.discountedPrice.present /\ line.discountedPrice.v >= 0
                            THEN line.discountedPrice.v ELSE line.price))
          /\ SumQuantity(carts'[i].items) = SumOver(carts'[i].items, LAMBDA line : line.quantity)
     /\ \A r \in ShopRequests, id \in ProductIds :
          AddedNewLine(r, id) =>
            EffectivePrice(LineWith(CartItems(carts', r[1]), id, r[2].size, r[2].color))
              = IF products[id].discountPrice.present /\ products[id].discountPrice.v >= 0
                THEN products[id].discountPrice.v ELSE products[id].price]_vars

\* A cart of a line at 899 (1299 discounted) and a line at 1299 without discount:
\* a total of 2198 and a count of 2.
C12_Witness ==
  /\ resp.op = "addItem" /\ resp.success /\ resp.count = 2
  /\ \E k \in 1..2 :
       /\ Len(CartItems(carts, "u1")) = 2
       /\ CartItems(carts, "u1")[k].price = 1299
       /\ CartItems(carts, "u1")[k].discountedPrice = Discount(899)
       /\ CartItems(carts, "u1")[3 - k].discountedPrice = NoDiscount
  /\ CartTotal(CartItems(carts, "u1")) = 2198

(***************************************************************************)
(* C13: removeItem deletes exactly the line of its key when the cart has   *)
(* one and leaves every other line, in order, as it is; without such a     *)
(* line, or without a cart, it changes nothing; it never answers an error, *)
(* and after it a second removal of the key changes nothing.               *)
(***************************************************************************)
C13_RemoveDeletesExactlyTheLine ==
  [][\A r \in ShopRequests, id \in ProductIds :
       RemoveItem(r[1], id, r[2].size, r[2].color) =>
         LET items == CartItems(carts, r[1])
             hits == LinesWith(items, id, r[2].size, r[2].color)
         IN /\ resp'.success
            /\ UNCHANGED <<products, orders>>
            /\ Len(carts') = Len(carts)
            /\ \A i \in 1..Len(carts) : carts[i].user # r[1] => carts'[i] = carts[i]
            /\ hits = {} => carts' = carts
            /\ hits # {} =>
                 LET k == CHOOSE i \in hits : TRUE
                 IN CartItems(carts', r[1])
                      = SubSeq(items, 1, k - 1) \o SubSeq(items, k + 1, Len(items))
            /\ LinesWith(CartItems(carts', r[1]), id, r[2].size, r[2].color) = {}
            /\ WithoutLine(CartItems(carts', r[1]), id, r[2].size, r[2].color)
                 = CartItems(carts', r[1])]_vars

\* A removal has emptied the cart of the first shopper (a cart exists only by an
\* add, so it held a line) and the cart of the second shopper still holds its line.
C13_Witness ==
  /\ resp.op = "removeItem" /\ resp.user = "u1"
  /\ CartsOf(carts, "u1") # {} /\ CartItems(carts, "u1") = <<>>
  /\ CartItems(carts, "u2") # <<>>

(***************************************************************************)
(* C14: an Order holds the lines of the cart of its checkout and their     *)
(* total; once created, no step (an edit or a deletion of a product, an    *)
(* add to a cart, a later checkout) removes it or changes its user, its    *)
(* lines or its total amount.                                              *)
(***************************************************************************)
C14_OrderKeepsLinesAndTotal ==
  [][/\ Len(orders') >= Len(orders)
     /\ \A k \in 1..Len(orders) :
          /\ orders'[k].user = orders[k].user
          /\ orders'[k].items = orders[k].items
          /\ orders'[k].totalAmount = orders[k].totalAmount
     /\ Len(orders') > Len(orders) =>
          \E u \in Users :
            /\ Len(orders') = Len(orders) + 1
            /\ orders'[Len(orders')].user = u
            /\ orders'[Len(orders')].items = CartAtCall(u)
            /\ orders'[Len(orders')].totalAmount
                 = SumOver(CartAtCall(u),
                           LAMBDA line : line.quantity *
                             (IF line.discountedPrice.present /\ line.discountedPrice.v >= 0
                              THEN line.discountedPrice.v ELSE line.price))]_vars

\* The product of an Order's lines has been deleted and the Order stands with its
\* lines and its total.
C14_Witness ==
  /\ resp.op = "delete" /\ products = <<>>
  /\ Len(orders) = 1 /\ Len(orders[1].items) = 2
  /\ orders[1].items[1].product = 1
  /\ orders[1].totalAmount = 2598

(***************************************************************************)
(* The statistics a run has answered, against the orders and the catalog   *)
(* it read: the state is the one of the call as long as resp is the run's. *)
(***************************************************************************)
StatsAnswered == resp.op = "stats" /\ resp.success

\* The orders whose status indicates completion.
Completed(o) ==
  o.status = "completed" \/ o.status = "delivered" \/ o.paymentStatus = "completed"

CompletedOrders == {k \in 1..Len(orders) : Completed(orders[k])}

AmountOfCompleted ==
  SumOver(orders, LAMBDA o : IF Completed(o) THEN o.totalAmount ELSE 0)

AmountOfAll == SumOver(orders, LAMBDA o : o.totalAmount)

(***************************************************************************)
(* C15: the avgOrderValue of a run is the revenue divided by the order     *)
(* count, rounded, both taken over the same orders (the completed ones the *)
(* revenue is the sum of, or else all of them), and it is 0, as is the     *)
(* totalRevenue, when there are no orders.                                 *)
(***************************************************************************)
C15_AverageOverTheSameOrders ==
  (StatsAnswered /\ resp.fails = {}) =>
    /\ orders = <<>> => (resp.stats.avgOrderValue = 0 /\ resp.stats.totalRevenue = 0)
    /\ \/ resp.stats.avgOrderValue
            = (IF CompletedOrders = {} THEN 0
               ELSE Round(AmountOfCompleted, Cardinality(CompletedOrders)))
       \/ resp.stats.avgOrderValue
            = (IF orders = <<>> THEN 0 ELSE Round(AmountOfAll, Len(orders)))

(***************************************************************************)
(* C16: the totalRevenue of a run is the sum of the totalAmount of the     *)
(* orders with status completed or delivered or with paymentStatus         *)
(* completed, each counted once; the other orders contribute nothing.      *)
(***************************************************************************)
C16_RevenueOfCompletedOrders ==
  (StatsAnswered /\ resp.fails = {}) => resp.stats.totalRevenue = AmountOfCompleted

\* A run over a delivered order and an order that is completed and paid (two of the
\* conditions at once); the revenue is the sum of the two amounts.
C16_Witness ==
  /\ StatsAnswered /\ resp.fails = {}
  /\ Len(orders) = 2
  /\ orders[1].status = "delivered" /\ orders[1].paymentStatus = "pending"
  /\ orders[2].status = "completed" /\ orders[2].paymentStatus = "completed"
  /\ resp.stats.totalRevenue = orders[1].totalAmount + orders[2].totalAmount

(***************************************************************************)
(* C17: a run whose revenue aggregation fails answers as the run without   *)
(* the failure does, except for totalRevenue = 0 and avgOrderValue = 0.    *)
(***************************************************************************)
C17_RevenueFailureTolerated ==
  (resp.op = "stats" /\ resp.fails = {RevenueQuery}) =>
    /\ resp.success
    /\ resp.stats = [DashboardStats(FALSE, resp.today) EXCEPT
                       !.totalRevenue = 0, !.avgOrderValue = 0]

\* The aggregation has failed over orders with a revenue, and the run has answered.
C17_Witness ==
  /\ StatsAnswered /\ resp.fails = {RevenueQuery}
  /\ AmountOfCompleted > 0 /\ Len(orders) = 2
  /\ resp.stats.totalOrders = 2 /\ resp.stats.pendingOrders = 1
  /\ resp.stats.totalProducts = 1

(***************************************************************************)
(* C18: a run in which one sub-query other than the revenue fails still    *)
(* answers: the metric of that sub-query takes its default and every other *)
(* metric is the one of the run without the failure.                       *)
(***************************************************************************)
MetricsOf(query) ==
  CASE query = "products" -> {"totalProducts"}
    [] query = "orders" -> {"totalOrders", "avgOrderValue"}
    [] query = "users" -> {"totalUsers"}
    [] query = "pending" -> {"pendingOrders"}
    [] query = "lowStock" -> {"lowStockItems"}
    [] query = "today" -> {"todaysOrders"}
    [] query = "recent" -> {"recentActivities"}
    [] OTHER -> {}

C18_SubQueryFailureTolerated ==
  (resp.op = "stats" /\ resp.fails \cap ParallelQueries # {}) =>
    /\ resp.success
    /\ \A q \in resp.fails :
         \A m \in DOMAIN DashboardStats(FALSE, resp.today) \ MetricsOf(q) :
           resp.stats[m] = DashboardStats(FALSE, resp.today)[m]

C20_LowStockCountsTotalStock ==
  StatsAnswered =>
    resp.stats.lowStockItems
      = Cardinality({id \in DOMAIN products :
                       /\ TotalStock(products[id].sizes) >= 1
                       /\ TotalStock(products[id].sizes) <= LowStockLimit})

(***************************************************************************)
(* C21: the recent activities of the dashboard statistics.                 *)
(***************************************************************************)
\* The activities of the statistics answered last.
ActivitiesAnswered == resp.stats.recentActivities

\* C21: the recentActivities list of an answered getDashboardStats is never empty.
\* Without an order it is exactly the welcome entry; with orders it has
\* min(5, number of orders) entries, one per order, of distinct orders, the newest
\* first, and no order left out was created after a listed one.
C21_RecentActivitiesNewestFirst ==
  StatsAnswered =>
    LET acts == ActivitiesAnswered
    IN /\ Len(acts) >= 1
       /\ Len(orders) = 0 =>
            /\ Len(acts) = 1
            /\ acts[1].title = "Welcome to Admin Panel"
       /\ Len(orders) >= 1 =>
            /\ Len(acts) = Min(RecentLimit, Len(orders))
            /\ \A i \in 1..Len(acts) :
                 acts[i].title = "New Order" /\ acts[i].order \in 1..Len(orders)
            /\ \A i, j \in 1..Len(acts) :
                 i < j => /\ acts[i].order > acts[j].order
                          /\ orders[acts[i].order].createdAt >= orders[acts[j].order].createdAt
            /\ \A k \in 1..Len(orders) :
                 (\A i \in 1..Len(acts) : acts[i].order # k) =>
                   \A i \in 1..Len(acts) : k < acts[i].order

\* C21 witness: statistics answered over six orders list five of them, and the
\* orders were created on two different days.
C21_Witness ==
  /\ StatsAnswered
  /\ Len(orders) = 6
  /\ Len(ActivitiesAnswered) = RecentLimit
  /\ orders[1].createdAt # orders[6].createdAt

(***************************************************************************)
(* C22, C28, C29: the sizes, colors and images of the products the admin   *)
(* stores.                                                                 *)
(***************************************************************************)
\* The step stores a new product under id.
Created(id) == id \notin DOMAIN products /\ id \in DOMAIN products'

\* C22: every stored product has pairwise distinct size values and every size
\* quantity is an integer >= 0, whatever the create and edit requests carried.
C22_SizesDistinctAndNonNegative ==
  \A id \in DOMAIN products :
    LET sizes == products[id].sizes
    IN /\ \A i, j \in 1..Len(sizes) : i # j => sizes[i].size # sizes[j].size
       /\ \A i \in 1..Len(sizes) : sizes[i].quantity \in Nat

\* The quantity field of a size holds a positive number.
PositiveField(body, size) ==
  /\ size \in DOMAIN body.fields
  /\ body.fields[size].kind = "num"
  /\ body.fields[size].v > 0

\* C28: a product saved by POST /admin/products/create has at least one size
\* entry and every entry has quantity > 0, the quantity of its field; when no
\* size field 6..12 holds a positive quantity it has exactly the default entry,
\* size 9 with quantity 10.
C28_CreatedSizesPositiveOrDefault ==
  [][\A id \in ProductIds, body \in CatalogCreateBodies :
       (Created(id) /\ AdminCreate(body)) =>
         LET sizes == products'[id].sizes
             default == <<[size |-> DefaultSize, quantity |-> DefaultQuantity]>>
         IN /\ Len(sizes) >= 1
            /\ \A i \in 1..Len(sizes) : sizes[i].quantity > 0
            /\ IF \A size \in MinSizeField..MaxSizeField : ~PositiveField(body, size)
               THEN sizes = default
               ELSE \A i \in 1..Len(sizes) :
                      /\ PositiveField(body, sizes[i].size)
                      /\ sizes[i].quantity = body.fields[sizes[i].size].v]_vars

\* C28 witness: a create request has stored a product with the default entry alone,
\* size 9 with quantity 10.
C28_Witness ==
  /\ resp.op = "create" /\ resp.success
  /\ \E id \in DOMAIN products :
       products[id].sizes = <<[size |-> DefaultSize, quantity |-> DefaultQuantity]>>

RECURSIVE ImagesOf(_)
\* The images of the colors, concatenated in color order.
ImagesOf(colors) ==
  IF colors = <<>> THEN <<>> ELSE colors[1].images \o ImagesOf(Tail(colors))

\* C29: POST /admin/products/create partitions the uploaded images among the
\* colors: the images of the colors concatenated in color order are the upload
\* list, each color holds at most ceil(images / colors) of them, and without a
\* named color all of them go to the single color 'Default'.
C29_ImagesPartitionedAmongColors ==
  [][\A id \in ProductIds, body \in CatalogCreateBodies :
       (Created(id) /\ AdminCreate(body)) =>
         LET colors == products'[id].colors
             uploaded == CloudinaryImages(body.files)
             named == ProcessColors(body.colors, body.codes)
         IN /\ ImagesOf(colors) = uploaded
            /\ Len(ImagesOf(colors)) = Len(body.files)
            /\ \A i \in 1..Len(colors) :
                 Len(colors[i].images) * Len(colors) < Len(uploaded) + Len(colors)
            /\ IF Len(named) = 0
               THEN /\ Len(colors) = 1
                    /\ colors[1].name = DefaultColor
                    /\ colors[1].images = uploaded
               ELSE /\ Len(colors) = Len(named)
                    /\ \A i \in 1..Len(colors) : colors[i].name = named[i].name]_vars

\* C29 witness: three images stored over two colors, two and one.
C29_Witness ==
  /\ resp.op = "create" /\ resp.success
  /\ \E id \in DOMAIN products :
       /\ Len(products[id].colors) = 2
       /\ Len(products[id].colors[1].images) = 2
       /\ Len(products[id].colors[2].images) = 1

(***************************************************************************)
(* C24, C25, C30: the accounts, the admin sign-in and the guarded routes.  *)
(***************************************************************************)
\* The session holds a user whose role is admin.
HoldsAdmin(s) == session[s].role = "admin"

\* The accounts a sign-in with this email names: stored under the email once it
\* is trimmed and lowercased.
Named(email) ==
  {k \in 1..Len(users) : email.kind = "text" /\ users[k].email = LowerCase(Trim(email))}

\* The attempt passes the three checks: an existing user, that user's password,
\* the role admin.
PassesChecks(email, password) ==
  \E k \in Named(email) :
    /\ password.kind = "text"
    /\ users[k].password = Hash(password)
    /\ users[k].role = "admin"

\* C24: a session comes to hold an identity only by an attempt of that session
\* that names an existing user, supplies the user's password and finds the role
\* admin, and the identity is that user's; an attempt that fails a check answers
\* a redirect to /admin-login (unknown email before wrong password before
\* non-admin role) and leaves every session.user unchanged.
C24_AdminIdentityOnlyByPassingLogin ==
  [][/\ \A s \in Sessions, email \in LoginEmails, password \in LoginPasswords :
          AdminLogin(s, email, password) =>
            IF PassesChecks(email, password)
            THEN /\ HoldsAdmin(s)'
                 /\ session'[s].email = LowerCase(Trim(email))
                 /\ \A other \in Sessions \ {s} : session'[other] = session[other]
            ELSE /\ session' = session
                 /\ resp'.location = "/admin-login"
                 /\ Named(email) = {} => resp'.error = "Admin not found"
                 /\ (Named(email) # {} /\ password.kind = "text"
                       /\ \A k \in Named(email) : users[k].password # Hash(password))
                      => resp'.error = "Invalid password"
                 /\ (\E k \in Named(email) :
                       /\ password.kind = "text"
                       /\ users[k].password = Hash(password))
                      => resp'.error = "Not an admin account"
     /\ \A s \in Sessions :
          (session'[s] # session[s] /\ session'[s] # NoSessionUser) =>
            \E email \in LoginEmails, password \in LoginPasswords :
              AdminLogin(s, email, password) /\ PassesChecks(email, password)
     /\ \A s \in Sessions :
          session'[s] # NoSessionUser =>
            \E k \in 1..Len(users') :
              users'[k].email = session'[s].email /\ users'[k].role = "admin"]_vars

\* C24 witness: a registered customer's attempt with the right password has just
\* been turned down as no admin account, while the other session holds the admin.
C24_Witness ==
  /\ resp.op = "admin-login"
  /\ resp.error = "Not an admin account"
  /\ ~HoldsAdmin(resp.session)
  /\ \E s \in Sessions : HoldsAdmin(s)

\* The collections of the store.
store == <<products, nextProductId, carts, orders, users>>

\* C25: a request of a session that holds no admin to a guarded admin route
\* (pages, dashboard, api/stats, product create) is turned down, with a redirect to
\* /admin-login or 401 for api/stats, and no record changes; records are answered
\* or a product created only while some session holds an admin; GET /logout leaves
\* the session without a user, and a session comes to hold an admin only by a
\* successful admin sign-in of that session.
C25_GuardedRoutesNeedAdminSession ==
  [][/\ \A s \in Sessions :
          (/\ ~HoldsAdmin(s)
           /\ \/ \E page \in AdminPages : AdminPage(s, page)
              \/ \E fails \in {{}, {RevenueQuery}} : AdminDashboard(s, fails, 0)
              \/ \E fails \in {{}, {RevenueQuery}} : AdminApiStats(s, fails, 0)
              \/ \E body \in CreateBodies : AdminProductsCreate(s, body))
          => /\ resp'.error = "denied"
             /\ resp'.session = s
             /\ IF resp'.op = "api/stats" THEN resp'.status = 401
                ELSE resp'.status = 302 /\ resp'.location = "/admin-login"
             /\ UNCHANGED store
     /\ (\/ products' # products
         \/ resp'.op \in AdminPages /\ resp'.success
         \/ resp'.op = "stats")
          => \E s \in Sessions : HoldsAdmin(s)
     /\ \A s \in Sessions : Logout(s) => ~HoldsAdmin(s)'
     /\ \A s \in Sessions :
          (~HoldsAdmin(s) /\ HoldsAdmin(s)') =>
            resp'.op = "admin-login" /\ resp'.success /\ resp'.session = s]_vars

\* C25 witness: a product create has just been turned down, every session being
\* signed out again after an admin had created a product.
C25_Witness ==
  /\ resp.op = "create"
  /\ resp.error = "denied"
  /\ \A s \in Sessions : session[s] = NoSessionUser
  /\ products # <<>>

\* The fields of a registration are present: not empty, name and email not blank.
FieldsPresent(body) ==
  /\ body.name.kind = "text" /\ body.name.text # ""
  /\ body.email.kind = "text" /\ body.email.text # ""
  /\ body.password.kind = "text" /\ body.password.length > 0
  /\ body.confirm_password.kind = "text" /\ body.confirm_password.length > 0

\* C30: no two users share an email.  A POST /register creates exactly one user,
\* under the email given, when the four fields are present, the passwords are
\* equal, the password has at least 6 characters and no user has the email; in
\* every other case the users stay as they are.
C30_RegistrationKeepsEmailsUnique ==
  [][/\ \A body \in RegisterBodies :
          Register(body) =>
            IF /\ FieldsPresent(body)
               /\ body.password = body.confirm_password
               /\ body.password.length >= MinPasswordLength
               /\ Named(body.email) = {}
            THEN /\ Len(users') = Len(users) + 1
                 /\ SubSeq(users', 1, Len(users)) = users
                 /\ users'[Len(users')].email = LowerCase(Trim(body.email))
                 /\ users'[Len(users')].role = "customer"
            ELSE users' = users
     /\ \A i, j \in 1..Len(users') : i # j => users'[i].email # users'[j].email]_vars

\* C30 witness: a registration has just been turned down because its email is
\* already registered, after another registration had created the second account.
C30_Witness ==
  /\ resp.op = "register"
  /\ resp.error = "Email is already registered"
  /\ Len(users) = 2

(***************************************************************************)
(* C26, C27: the login attempts and the lock of an account.                *)
(***************************************************************************)
\* The step is a call of incLoginAttempts on account k.
Called(k) == \E r \in Callers : calls[r].op = "incLoginAttempts" /\ calls[r].id = k /\ IncLoginAttempts(r)

C27_FiveAttemptsImplyLock ==
  \A k \in 1..Len(users) :
    users[k].loginAttempts >= LockThreshold => users[k].lockUntil.set

(***************************************************************************)
(* C23: interleaved adds of one user.                                      *)
(***************************************************************************)
\* C23: when two adds of one user interleave, both looking the cart up before
\* either saves, the store never ends up with two carts of that user.
C23_InterleavedAddsKeepOneCart ==
  \A u \in Users : Cardinality(CartsOf(carts, u)) <= 1

====
